---- MODULE Spec2Model ----
(***************************************************************************)
(* A model of the in-memory table engine: rbind__impl and cbind__impl      *)
(* (the bind source), arrange_impl (arrange.cpp), distinct_impl            *)
(* (distinct.cpp).                                                         *)
(* Every operation is a small state machine whose steps are the loop       *)
(* iterations of the C++ code.  Each operation keeps its locals in one     *)
(* record variable, so the fields carry the names the source gives them.   *)
(***************************************************************************)
EXTENDS Integers, Sequences, FiniteSets, TLC

VARIABLES rb, cb, ar, di

vars == <<rb, cb, ar, di>>

(* ------------------------------ bounds -------------------------------- *)
MaxTables == 2
MaxRows == 2
MaxCbindTables == 3
MaxArrangeRows == 3
MaxGroups == 3
MaxKeys == 2
MaxDistinctRows == 4

(* a cell is <<v>>, or <<>> for the null marker; an absent table or error is <<>> *)
NA == <<>>
None == "none"
Idle == [pc |-> "idle"]

(* ============================ Collecter ================================ *)
(* Doubles are held in fixed point with one binary fractional digit, so    *)
(* the integer 3 and the double 3.0 are different representations (3, 6).  *)

ToDouble(v) == 2 * v

Convert(v, from, to) ==
    IF v = NA THEN NA
    ELSE IF from = "integer" /\ to = "double" THEN <<ToDouble(v[1])>>
    ELSE v

collecter(src, n) ==
    [type |-> src.type, data |-> [r \in 1..n |-> NA]]

compatible(c, src) ==
    IF src.type = c.type THEN TRUE
    ELSE c.type = "double" /\ src.type = "integer"

can_promote(c, src) ==
    c.type = "integer" /\ src.type = "double"

promote_collecter(src, n, c) ==
    [type |-> src.type, data |-> [r \in 1..n |-> NA]]

(* collect(SlicingIndex(start, len), source): source[0..len) goes to       *)
(* output rows start .. start+len-1 (0-based).                             *)
collect(c, start, len, src) ==
    [type |-> c.type,
     data |-> [r \in DOMAIN c.data |->
                IF start < r /\ r <= start + len
                THEN Convert(src.vals[r - start], src.type, c.type)
                ELSE c.data[r]]]

get(c) == [type |-> c.type, vals |-> c.data]

(* a Collecter object on the heap: the pointer value and the object *)
At(id, c) == [id |-> id, type |-> c.type, data |-> c.data]

(* ============================== row_bind =============================== *)
RECURSIVE TotalRows(_)
TotalRows(dots) ==
    IF dots = <<>> THEN 0
    ELSE LET t == dots[Len(dots)]
         IN TotalRows(SubSeq(dots, 1, Len(dots) - 1))
              + (IF Len(t.cols) # 0 THEN t.nrows ELSE 0)

Skipped(t) == IF Len(t.cols) = 0 THEN TRUE ELSE Len(t.cols[1].vals) = 0

(* the linear scan for the column name; 0 stands for "coll == 0" *)
FindColumn(names, name) ==
    IF \E x \in 1..Len(names) : names[x] = name
    THEN CHOOSE x \in 1..Len(names) :
            names[x] = name /\ \A y \in 1..(x - 1) : names[y] # name
    ELSE 0

(* mutants of the row_bind orchestration *)
OffsetStuck(k, nrows) == k

PromoteNoReplay(c, src, n, k, nrows) ==
    collect(promote_collecter(src, n, c), k, nrows, src)

ColumnBranchCoerce(c, src) ==
    IF compatible(c, src) \/ ~can_promote(c, src) THEN "collect" ELSE "promote"

ColumnBranch(c, src) ==
    IF compatible(c, src) THEN "collect"
    ELSE IF can_promote(c, src) THEN "promote"
    ELSE "stop"

Promote(c, src, n, k, nrows) ==
    LET new_collecter == promote_collecter(src, n, c)
        chunk == collect(new_collecter, k, nrows, src)
    IN collect(chunk, 0, k, get(c))

NextOffset(k, nrows) == k + nrows

IncompatibleMessage(i, name, c, src) ==
    [kind |-> "IncompatibleColumnType", index |-> i + 1, column |-> name,
     was |-> c.type, incoming |-> src.type]

(* ---- inputs ---- *)
Cell(i, j, r) == (i * 2 + j) * (MaxRows + 1) + r

Val(type, i, j, r) ==
    IF type = "double" THEN ToDouble(Cell(i, j, r)) + 1 ELSE Cell(i, j, r)

MkColumn(name, type, i, j, nrows) ==
    [name |-> name, type |-> type, vals |-> [r \in 1..nrows |-> <<Val(type, i, j, r)>>]]

Shapes ==
    [nrows : 0..MaxRows, x : {None, "integer", "double", "list"}, y : {None, "integer"}]

MkTable(s, i) ==
    [nrows |-> s.nrows,
     cols |-> (IF s.x = None THEN <<>> ELSE <<MkColumn("x", s.x, i, 0, s.nrows)>>)
              \o (IF s.y = None THEN <<>> ELSE <<MkColumn("y", s.y, i, 1, s.nrows)>>)]

RbInit ==
    \E nd \in 0..MaxTables : \E ss \in [1..nd -> Shapes] :
        rb = [pc |-> "count", dots |-> [p \in 1..nd |-> MkTable(ss[p], p - 1)],
              n |-> 0, i |-> 0, j |-> 0, k |-> 0,
              columns |-> <<>>, names |-> <<>>,
              live |-> {}, created |-> 0, writes |-> {},
              outcome |-> "running", out |-> <<>>, err |-> <<>>]

ndata == Len(rb.dots)
df == rb.dots[rb.i + 1]
source == df.cols[rb.j + 1]
index == FindColumn(rb.names, source.name)
(* state after lines 39-43: the Collecter for the name, created if absent *)
isNew == index = 0
slot == IF isNew THEN Len(rb.names) + 1 ELSE index
coll == IF isNew
        THEN At(rb.created + 1, collecter(source, rb.n))
        ELSE rb.columns[index]
columns1 == IF isNew THEN Append(rb.columns, coll) ELSE rb.columns
names1 == IF isNew THEN Append(rb.names, source.name) ELSE rb.names
live1 == IF isNew THEN rb.live \cup {coll.id} ELSE rb.live
created1 == IF isNew THEN rb.created + 1 ELSE rb.created

AtColumn ==
    /\ rb.pc = "loop" /\ rb.i < ndata
    /\ ~Skipped(df) /\ rb.j < Len(df.cols)

RbindCount ==
    /\ rb.pc = "count"
    /\ rb' = [rb EXCEPT !.pc = "loop", !.n = TotalRows(rb.dots)]
    /\ UNCHANGED <<cb, ar, di>>

RbindInterrupt ==
    /\ rb.pc = "loop" /\ rb.i < ndata /\ rb.j = 0
    /\ rb' = [rb EXCEPT !.pc = "done", !.outcome = "Interrupted"]
    /\ UNCHANGED <<cb, ar, di>>

RbindSkip ==
    /\ rb.pc = "loop" /\ rb.i < ndata /\ Skipped(df)
    /\ rb' = [rb EXCEPT !.i = @ + 1]
    /\ UNCHANGED <<cb, ar, di>>

RbindCollect ==
    /\ AtColumn
    /\ ColumnBranch(coll, source) = "collect"
    /\ rb' = [rb EXCEPT
                !.columns = [columns1 EXCEPT ![slot] =
                                At(coll.id, collect(coll, rb.k, df.nrows, source))],
                !.names = names1, !.live = live1, !.created = created1,
                !.writes = @ \cup {[table |-> rb.i + 1, from |-> rb.k, len |-> df.nrows]},
                !.j = @ + 1]
    /\ UNCHANGED <<cb, ar, di>>

RbindPromote ==
    /\ AtColumn
    /\ ColumnBranch(coll, source) = "promote"
    /\ rb' = [rb EXCEPT
                !.columns = [columns1 EXCEPT ![slot] =
                                At(created1 + 1,
                                   Promote(coll, source, rb.n, rb.k, df.nrows))],
                !.names = names1,
                !.live = (live1 \cup {created1 + 1}) \ {coll.id},
                !.created = created1 + 1,
                !.writes = @ \cup {[table |-> rb.i + 1, from |-> rb.k, len |-> df.nrows]},
                !.j = @ + 1]
    /\ UNCHANGED <<cb, ar, di>>

RbindStop ==
    /\ AtColumn
    /\ ColumnBranch(coll, source) = "stop"
    /\ rb' = [rb EXCEPT
                !.columns = columns1, !.names = names1,
                !.live = live1, !.created = created1,
                !.pc = "done", !.outcome = "IncompatibleColumnType",
                !.err = <<IncompatibleMessage(rb.i, source.name, coll, source)>>]
    /\ UNCHANGED <<cb, ar, di>>

RbindNextTable ==
    /\ rb.pc = "loop" /\ rb.i < ndata
    /\ ~Skipped(df) /\ rb.j = Len(df.cols)
    /\ rb' = [rb EXCEPT !.k = NextOffset(rb.k, df.nrows), !.i = @ + 1, !.j = 0]
    /\ UNCHANGED <<cb, ar, di>>

RbindFinish ==
    /\ rb.pc = "loop" /\ rb.i = ndata
    /\ rb' = [rb EXCEPT
                !.out = <<[names |-> rb.names,
                           cols |-> [c \in 1..Len(rb.columns) |-> get(rb.columns[c])],
                           nrows |-> rb.n]>>,
                !.live = {},
                !.pc = "done", !.outcome = "ok"]
    /\ UNCHANGED <<cb, ar, di>>

NextRbind ==
    \/ RbindCount \/ RbindInterrupt \/ RbindSkip \/ RbindCollect
    \/ RbindPromote \/ RbindStop \/ RbindNextTable \/ RbindFinish

InitRbind == RbInit /\ cb = Idle /\ ar = Idle /\ di = Idle

SpecRbind == InitRbind /\ [][NextRbind]_vars

(* ------------------------- row_bind properties ------------------------- *)
NonEmpty(t) == Len(t.cols) > 0 /\ t.nrows > 0

RECURSIVE RowsBefore(_)
RowsBefore(p) ==
    IF p <= 1 THEN 0
    ELSE RowsBefore(p - 1) + (IF NonEmpty(rb.dots[p - 1]) THEN rb.dots[p - 1].nrows ELSE 0)

ExpectedRows == RowsBefore(ndata + 1)

Places == UNION {{<<p, c>> : c \in 1..Len(rb.dots[p].cols)} : p \in 1..ndata}
ColAt(pj) == rb.dots[pj[1]].cols[pj[2]]
Contributes(pj) == NonEmpty(rb.dots[pj[1]])
Earlier(a, b) == a[1] < b[1] \/ (a[1] = b[1] /\ a[2] < b[2])
OutColumn(name) == rb.out[1].cols[FindColumn(rb.out[1].names, name)]

(* C2: the result of row_bind has N = the sum of the row counts of the      *)
(* non-empty inputs, every output column has length N, and the table at     *)
(* position i writes exactly the range [k, k + rows_i) with k the sum of    *)
(* the row counts of the earlier non-skipped tables; ranges stay inside     *)
(* [0, N) and the ranges of different tables do not overlap.                *)
C2_RowBindRowCount ==
    /\ \A w \in rb.writes :
          /\ NonEmpty(rb.dots[w.table])
          /\ w.from = RowsBefore(w.table)
          /\ w.len = rb.dots[w.table].nrows
          /\ w.from + w.len <= ExpectedRows
    /\ \A w1, w2 \in rb.writes :
          w1.table # w2.table =>
            (w1.from + w1.len <= w2.from \/ w2.from + w2.len <= w1.from)
    /\ rb.outcome = "ok" =>
          /\ rb.out[1].nrows = ExpectedRows
          /\ \A c \in 1..Len(rb.out[1].cols) : Len(rb.out[1].cols[c].vals) = ExpectedRows
          /\ \A p \in 1..ndata :
                NonEmpty(rb.dots[p]) => \E w \in rb.writes : w.table = p

C2_Witness ==
    /\ rb.outcome = "ok" /\ ndata >= 2
    /\ \E w1, w2 \in rb.writes : w1.table # w2.table /\ w1.len = 2 /\ w2.len >= 1

(* C3: when a name is bound from an integer column and a double column,     *)
(* in either table order, the output column is double and every row that    *)
(* came from the integer table holds the numerically identical value at     *)
(* its position in the output.                                              *)
C3_PromotionOrderIndependent ==
    rb.outcome = "ok" =>
      \A a, b \in Places :
        ( /\ Contributes(a) /\ Contributes(b)
          /\ ColAt(a).name = ColAt(b).name
          /\ ColAt(a).type = "integer" /\ ColAt(b).type = "double" )
        => /\ OutColumn(ColAt(a).name).type = "double"
           /\ \A r \in 1..rb.dots[a[1]].nrows :
                 OutColumn(ColAt(a).name).vals[RowsBefore(a[1]) + r]
                    = <<ToDouble(ColAt(a).vals[r][1])>>
           /\ \A r \in 1..rb.dots[b[1]].nrows :
                 OutColumn(ColAt(b).name).vals[RowsBefore(b[1]) + r] = ColAt(b).vals[r]

C3_Witness ==
    /\ rb.outcome = "ok"
    /\ \E a, b \in Places :
          /\ Earlier(a, b) /\ Contributes(a) /\ Contributes(b)
          /\ ColAt(a).name = ColAt(b).name
          /\ ColAt(a).type = "integer" /\ ColAt(b).type = "double"
          /\ rb.dots[a[1]].nrows = 2
    /\ rb.created > Len(rb.columns)

(* C4: a column that can be neither collected nor promoted makes the whole  *)
(* call fail with IncompatibleColumnType naming the position of its table   *)
(* and its name, and no table is returned, wherever the table stands.       *)
Unifiable(s, t) == (s = "list") <=> (t = "list")
Offending(b) ==
    /\ Contributes(b)
    /\ \E a \in Places :
          /\ Earlier(a, b) /\ Contributes(a)
          /\ ColAt(a).name = ColAt(b).name
          /\ ~Unifiable(ColAt(a).type, ColAt(b).type)
FirstOffending(b) == Offending(b) /\ \A a \in Places : Offending(a) => ~Earlier(a, b)

C10_CollectersReleased ==
    rb.pc = "done" =>
       /\ rb.live = {}
       /\ rb.outcome # "ok" => rb.out = <<>>

(* ============================= column_bind ============================= *)
ColumnLists == {<<>>, <<"x">>, <<"y">>, <<"x", "y">>}

(* a column of table p is the shared object <<p, c>> under its name *)
CbTable(nrows, names, p) ==
    [nrows |-> nrows,
     cols |-> [c \in 1..Len(names) |-> [name |-> names[c], obj |-> <<p, c>>]]]

CbInit ==
    \E nd \in 1..MaxCbindTables :
      \E rs \in [1..nd -> 0..MaxRows] : \E ns \in [1..nd -> ColumnLists] :
        cb = [pc |-> "start",
              dots |-> [p \in 1..nd |-> CbTable(rs[p], ns[p], p)],
              nrows |-> 0, nv |-> 0, i |-> 0, k |-> 0,
              out |-> <<>>, outcome |-> "running", res |-> <<>>, err |-> <<>>]

current == cb.dots[cb.i + 1]

RowsDifferUpward(t, nrows) == t.nrows > nrows

RowsDiffer(t, nrows) == t.nrows # nrows

RowCountMessage(t, nrows) ==
    [kind |-> "RowCountMismatch", reported |-> Len(t.cols), expecting |-> nrows]

(* the inner loop over the columns of one table, writing out[k], out[k+1], ... *)
StoreColumns(out, k, t) ==
    [x \in DOMAIN out |->
        IF k < x /\ x <= k + Len(t.cols) THEN t.cols[x - k] ELSE out[x]]

CbindStart ==
    /\ cb.pc = "start"
    /\ cb' = [cb EXCEPT !.pc = "check", !.nrows = cb.dots[1].nrows,
                        !.nv = Len(cb.dots[1].cols), !.i = 1]
    /\ UNCHANGED <<rb, ar, di>>

CbindCheck ==
    /\ cb.pc = "check" /\ cb.i < Len(cb.dots)
    /\ ~RowsDiffer(current, cb.nrows)
    /\ cb' = [cb EXCEPT !.nv = @ + Len(current.cols), !.i = @ + 1]
    /\ UNCHANGED <<rb, ar, di>>

CbindMismatch ==
    /\ cb.pc = "check" /\ cb.i < Len(cb.dots)
    /\ RowsDiffer(current, cb.nrows)
    /\ cb' = [cb EXCEPT !.pc = "done", !.outcome = "RowCountMismatch",
                        !.err = <<RowCountMessage(current, cb.nrows)>>]
    /\ UNCHANGED <<rb, ar, di>>

CbindAllocate ==
    /\ cb.pc = "check" /\ cb.i = Len(cb.dots)
    /\ cb' = [cb EXCEPT !.pc = "collect", !.i = 0, !.k = 0,
                        !.out = [x \in 1..cb.nv |-> [name |-> "", obj |-> <<>>]]]
    /\ UNCHANGED <<rb, ar, di>>

CbindInterrupt ==
    /\ cb.pc = "collect" /\ cb.i < Len(cb.dots)
    /\ cb' = [cb EXCEPT !.pc = "done", !.outcome = "Interrupted"]
    /\ UNCHANGED <<rb, ar, di>>

CbindCollect ==
    /\ cb.pc = "collect" /\ cb.i < Len(cb.dots)
    /\ cb' = [cb EXCEPT !.out = StoreColumns(cb.out, cb.k, current),
                        !.k = @ + Len(current.cols), !.i = @ + 1]
    /\ UNCHANGED <<rb, ar, di>>

CbindFinish ==
    /\ cb.pc = "collect" /\ cb.i = Len(cb.dots)
    /\ cb' = [cb EXCEPT !.pc = "done", !.outcome = "ok",
                        !.res = <<[cols |-> cb.out, nrows |-> cb.nrows]>>]
    /\ UNCHANGED <<rb, ar, di>>

NextCbind ==
    \/ CbindStart \/ CbindCheck \/ CbindMismatch \/ CbindAllocate
    \/ CbindInterrupt \/ CbindCollect \/ CbindFinish

InitCbind == CbInit /\ rb = Idle /\ ar = Idle /\ di = Idle

SpecCbind == InitCbind /\ [][NextCbind]_vars

(* ------------------------ column_bind properties ----------------------- *)
Mismatching == {p \in 1..Len(cb.dots) : cb.dots[p].nrows # cb.dots[1].nrows}
FirstMismatch == CHOOSE p \in Mismatching : \A q \in Mismatching : p <= q

RECURSIVE AllColumns(_)
AllColumns(p) == IF p = 0 THEN <<>> ELSE AllColumns(p - 1) \o cb.dots[p].cols

(* C5: the RowCountMismatch error carries the row count of the offending    *)
(* table (the first whose row count differs from the first table's) and     *)
(* the expected row count R of the first table.                             *)
C5_MismatchCarriesRowCount ==
    cb.outcome = "RowCountMismatch" =>
       /\ cb.err[1].expecting = cb.dots[1].nrows
       /\ cb.err[1].reported = cb.dots[FirstMismatch].nrows

(* C6: column_bind fails with RowCountMismatch exactly when some table's    *)
(* row count differs from the first table's, and then before any output     *)
(* column is assembled; otherwise the result has R rows and its columns     *)
(* are all the inputs' columns, names included, concatenated in input       *)
(* order (repeated names stay repeated).                                    *)
C6_ColumnBindGuard ==
    /\ (cb.pc = "done" /\ cb.outcome # "Interrupted") =>
          ((cb.outcome = "RowCountMismatch") <=> (Mismatching # {}))
    /\ cb.outcome = "RowCountMismatch" => (cb.out = <<>> /\ cb.res = <<>>)
    /\ cb.outcome = "ok" =>
          /\ cb.res[1].nrows = cb.dots[1].nrows
          /\ cb.res[1].cols = AllColumns(Len(cb.dots))

C6_Witness ==
    /\ cb.outcome = "ok" /\ Len(cb.dots) = 3
    /\ \E a, b \in 1..Len(cb.res[1].cols) :
          a < b /\ cb.res[1].cols[a].name = cb.res[1].cols[b].name
    /\ Len(cb.res[1].cols) >= 4

(* ============================== order_rows ============================= *)
(* OrderVisitors: row a goes before row b when the first key on which they *)
(* differ says so in its direction, and a < b when no key tells them apart.*)
Before(variables, ascending, a, b) ==
    LET diff == {x \in 1..Len(variables) : variables[x][a + 1] # variables[x][b + 1]}
    IN IF diff = {} THEN a < b
       ELSE LET x == CHOOSE y \in diff : \A z \in diff : y <= z
            IN IF ascending[x]
               THEN variables[x][a + 1] < variables[x][b + 1]
               ELSE variables[x][a + 1] > variables[x][b + 1]

RECURSIVE OrderApply(_, _, _)
OrderApply(variables, ascending, n) ==
    IF n = 0 THEN <<>>
    ELSE LET sorted == OrderApply(variables, ascending, n - 1)
             r == n - 1
             lo == SelectSeq(sorted, LAMBDA e : Before(variables, ascending, e, r))
             hi == SelectSeq(sorted, LAMBDA e : Before(variables, ascending, r, e))
         IN lo \o <<r>> \o hi

(* DataFrameVisitors::subset by a 0-based index vector *)
Subset(column, idx) == [x \in 1..Len(idx) |-> column[idx[x] + 1]]

(* seq(k, k + size - 1) *)
SeqRange(from, size) == [x \in 1..size |-> from + x - 1]

IsSpecialCase(dots, data) == Len(dots) = 0 /\ data.grouped

IsNoop(dots, data) == Len(dots) = 0 \/ data.nrows = 0

AscendingSameAsDesc(is_desc) == is_desc

Ascending(is_desc) == ~is_desc

Scatter(new_indices, idx, indices, i) ==
    [new_indices EXCEPT ![idx[i + 1] + 1] = indices[i + 1]]

(* ---- inputs ---- *)
Rows(n) == [x \in 1..n |-> x - 1]

LabelOrders(n) == {f \in [1..n -> 1..n] : \A a, b \in 1..n : a # b => f[a] # f[b]}

RowsOfGroup(assign, g) == SelectSeq(Rows(Len(assign)), LAMBDA r : assign[r + 1] = g)

Ungrouped(n) ==
    [nrows |-> n, rows |-> Rows(n), grouped |-> FALSE,
     labels |-> <<>>, indices |-> <<>>, group_sizes |-> <<>>]

Grouped(assign, labels) ==
    [nrows |-> Len(assign), rows |-> Rows(Len(assign)), grouped |-> TRUE,
     labels |-> labels,
     indices |-> [g \in 1..Len(labels) |-> RowsOfGroup(assign, g)],
     group_sizes |-> [g \in 1..Len(labels) |-> Len(RowsOfGroup(assign, g))]]

GroupedTables(n) ==
    UNION {{Grouped(assign, labels) :
              assign \in {f \in [1..n -> 1..ng] : \A g \in 1..ng : \E r \in 1..n : f[r] = g},
              labels \in LabelOrders(ng)} :
           ng \in (IF n = 0 THEN {0} ELSE 1..MaxGroups)}

OneGroup(n) == Grouped([r \in 1..n |-> 1], IF n = 0 THEN <<>> ELSE <<1>>)

(* a key is desc(expr) or expr; expr evaluates to the vector v *)
Keys(n) ==
    {[is_desc |-> d, type |-> "integer", v |-> v] : d \in BOOLEAN, v \in [1..n -> 1..2]}
    \cup {[is_desc |-> FALSE, type |-> "list", v |-> [r \in 1..n |-> 1]],
          [is_desc |-> FALSE, type |-> "integer", v |-> [r \in 1..(n + 1) |-> 1]],
          [is_desc |-> TRUE, type |-> "list", v |-> [r \in 1..(n + 1) |-> 1]]}

ArInit ==
    \E n \in 0..MaxArrangeRows :
      \E nargs \in 0..MaxKeys : \E dots \in [1..nargs -> Keys(n)] :
        \E data \in (IF nargs = 0 THEN GroupedTables(n) ELSE {OneGroup(n)}) \cup {Ungrouped(n)} :
          ar = [pc |-> "start", data |-> data, dots |-> dots,
                index |-> <<>>, labels |-> <<>>, new_indices |-> <<>>,
                master_index |-> <<>>, new_group_sizes |-> <<>>,
                i |-> 0, i2 |-> 0, k |-> 0,
                variables |-> <<>>, ascending |-> <<>>,
                outcome |-> "running", res |-> <<>>, err |-> <<>>]

ngroups == Len(ar.data.indices)
nargs == Len(ar.dots)
call == ar.dots[ar.i + 1]

ArrangeGroupedOrder ==
    /\ ar.pc = "start"
    /\ IsSpecialCase(ar.dots, ar.data)
    /\ LET idx == OrderApply(<<ar.data.labels>>, <<TRUE>>, Len(ar.data.labels))
       IN ar' = [ar EXCEPT !.pc = "grouped", !.index = idx,
                           !.labels = Subset(ar.data.labels, idx),
                           !.new_indices = [g \in 1..ngroups |-> <<>>],
                           !.master_index = [r \in 1..ar.data.nrows |-> 0],
                           !.new_group_sizes = [g \in 1..ngroups |-> 0],
                           !.i = 0, !.i2 = 0, !.k = 0]
    /\ UNCHANGED <<rb, cb, di>>

ArrangeScatter ==
    /\ ar.pc = "grouped" /\ ar.i < ngroups
    /\ ar' = [ar EXCEPT !.new_indices = Scatter(@, ar.index, ar.data.indices, ar.i),
                        !.i = @ + 1]
    /\ UNCHANGED <<rb, cb, di>>

ArrangeRebuild ==
    /\ ar.pc = "grouped" /\ ar.i = ngroups /\ ar.i2 < ngroups
    /\ LET idx == ar.new_indices[ar.i2 + 1]
       IN ar' = [ar EXCEPT
                   !.master_index = [x \in DOMAIN @ |->
                                       IF ar.k < x /\ x <= ar.k + Len(idx)
                                       THEN idx[x - ar.k] ELSE @[x]],
                   !.new_indices[ar.i2 + 1] = SeqRange(ar.k, Len(idx)),
                   !.new_group_sizes[ar.i2 + 1] = Len(idx),
                   !.k = @ + Len(idx), !.i2 = @ + 1]
    /\ UNCHANGED <<rb, cb, di>>

ArrangeGroupedReturn ==
    /\ ar.pc = "grouped" /\ ar.i = ngroups /\ ar.i2 = ngroups
    /\ ar' = [ar EXCEPT !.pc = "done", !.outcome = "ok",
                        !.res = <<[rows |-> Subset(ar.data.rows, ar.master_index),
                                   grouped |-> TRUE,
                                   labels |-> ar.labels,
                                   indices |-> ar.new_indices,
                                   group_sizes |-> ar.new_group_sizes]>>]
    /\ UNCHANGED <<rb, cb, di>>

ArrangeNoop ==
    /\ ar.pc = "start"
    /\ ~IsSpecialCase(ar.dots, ar.data)
    /\ IsNoop(ar.dots, ar.data)
    /\ ar' = [ar EXCEPT !.pc = "done", !.outcome = "ok",
                        !.res = <<[rows |-> ar.data.rows,
                                   grouped |-> ar.data.grouped,
                                   labels |-> ar.data.labels,
                                   indices |-> ar.data.indices,
                                   group_sizes |-> ar.data.group_sizes]>>]
    /\ UNCHANGED <<rb, cb, di>>

InKeyLoop ==
    /\ ar.pc \in {"start", "keys"}
    /\ ~IsSpecialCase(ar.dots, ar.data)
    /\ ~IsNoop(ar.dots, ar.data)
    /\ ar.i < nargs

ArrangeNotOrderable ==
    /\ InKeyLoop
    /\ call.type = "list"
    /\ ar' = [ar EXCEPT !.pc = "done", !.outcome = "NotOrderable",
                        !.err = <<[kind |-> "NotOrderable", class |-> call.type]>>]
    /\ UNCHANGED <<rb, cb, di>>

ArrangeLengthMismatch ==
    /\ InKeyLoop
    /\ call.type # "list"
    /\ Len(call.v) # ar.data.nrows
    /\ ar' = [ar EXCEPT !.pc = "done", !.outcome = "LengthMismatch",
                        !.err = <<[kind |-> "LengthMismatch", size |-> Len(call.v),
                                   expecting |-> ar.data.nrows]>>]
    /\ UNCHANGED <<rb, cb, di>>

ArrangeKey ==
    /\ InKeyLoop
    /\ call.type # "list"
    /\ Len(call.v) = ar.data.nrows
    /\ ar' = [ar EXCEPT !.pc = "keys",
                        !.variables = Append(@, call.v),
                        !.ascending = Append(@, Ascending(call.is_desc)),
                        !.i = @ + 1]
    /\ UNCHANGED <<rb, cb, di>>

ArrangeSort ==
    /\ ar.pc = "keys" /\ ar.i = nargs
    /\ LET idx == OrderApply(ar.variables, ar.ascending, ar.data.nrows)
       IN ar' = [ar EXCEPT !.pc = "done", !.outcome = "ok", !.index = idx,
                           !.res = <<[rows |-> Subset(ar.data.rows, idx),
                                      grouped |-> ar.data.grouped,
                                      labels |-> <<>>, indices |-> <<>>,
                                      group_sizes |-> <<>>]>>]
    /\ UNCHANGED <<rb, cb, di>>

NextArrange ==
    \/ ArrangeGroupedOrder \/ ArrangeScatter \/ ArrangeRebuild \/ ArrangeGroupedReturn
    \/ ArrangeNoop \/ ArrangeNotOrderable \/ ArrangeLengthMismatch
    \/ ArrangeKey \/ ArrangeSort

InitArrange == ArInit /\ rb = Idle /\ cb = Idle /\ di = Idle

SpecArrange == InitArrange /\ [][NextArrange]_vars

(* ------------------------- order_rows properties ----------------------- *)
GroupLabelled(l) == CHOOSE g \in 1..ngroups : ar.data.labels[g] = l

(* C1: after order_rows with zero keys on a grouped table, index set i of   *)
(* the result is a contiguous range of result rows holding exactly the      *)
(* original rows, in their original order, of the group whose label is the  *)
(* i-th label row of the result, and group size i is that group's size.     *)
C1_GroupMetadataAligned ==
    (ar.pc = "done" /\ ar.data.grouped /\ nargs = 0) =>
       /\ Len(ar.res[1].labels) = ngroups
       /\ Len(ar.res[1].indices) = ngroups
       /\ \A g \in 1..ngroups :
            LET orig == GroupLabelled(ar.res[1].labels[g])
                ix == ar.res[1].indices[g]
            IN /\ \A x \in 1..(Len(ix) - 1) : ix[x + 1] = ix[x] + 1
               /\ Subset(ar.res[1].rows, ix) = ar.data.indices[orig]
               /\ ar.res[1].group_sizes[g] = ar.data.group_sizes[orig]

InOrder(a, b) ==
    LET diff == {x \in 1..nargs : ar.dots[x].v[a + 1] # ar.dots[x].v[b + 1]}
    IN IF diff = {} THEN a < b
       ELSE LET x == CHOOSE y \in diff : \A z \in diff : y <= z
            IN IF ar.dots[x].is_desc
               THEN ar.dots[x].v[a + 1] > ar.dots[x].v[b + 1]
               ELSE ar.dots[x].v[a + 1] < ar.dots[x].v[b + 1]

KeysValid ==
    \A x \in 1..nargs : ar.dots[x].type # "list" /\ Len(ar.dots[x].v) = ar.data.nrows

(* C7: on an ungrouped table with K >= 1 valid keys the result is a         *)
(* permutation of the rows, sorted lexicographically by the keys each in    *)
(* its direction, rows equal on every key keeping their original relative   *)
(* order; with K = 0 the row order is unchanged.                            *)
C7_StableMultiKeySort ==
    (ar.pc = "done" /\ ~ar.data.grouped /\ KeysValid) =>
       /\ ar.outcome = "ok"
       /\ Len(ar.res[1].rows) = ar.data.nrows
       /\ \A r \in 1..ar.data.nrows : \E x \in 1..ar.data.nrows : ar.res[1].rows[x] = r - 1
       /\ IF nargs = 0
          THEN ar.res[1].rows = ar.data.rows
          ELSE \A x, y \in 1..ar.data.nrows :
                 x < y => InOrder(ar.res[1].rows[x], ar.res[1].rows[y])

C7_Witness ==
    /\ ar.pc = "done" /\ ~ar.data.grouped /\ KeysValid /\ ar.outcome = "ok"
    /\ nargs = 2 /\ ar.dots[1].is_desc /\ ~ar.dots[2].is_desc
    /\ ar.data.nrows = 3
    /\ ar.res[1].rows # ar.data.rows
    /\ \E a, b \in 0..2 :
         a # b /\ \A x \in 1..nargs : ar.dots[x].v[a + 1] = ar.dots[x].v[b + 1]

HasListKey == \E x \in 1..nargs : ar.dots[x].type = "list"
HasWrongLength == \E x \in 1..nargs : Len(ar.dots[x].v) # ar.data.nrows

(* C8: for every table, zero rows included, a key of a type that cannot be  *)
(* compared makes order_rows fail with NotOrderable and a key whose length  *)
(* is not the row count makes it fail with LengthMismatch; no table is      *)
(* returned in either case.                                                 *)
C8_BadKeysAreFatal ==
    (ar.pc = "done" /\ (HasListKey \/ HasWrongLength)) =>
       /\ ar.res = <<>>
       /\ ar.outcome \in {"NotOrderable", "LengthMismatch"}
       /\ ~HasWrongLength => ar.outcome = "NotOrderable"
       /\ ~HasListKey => ar.outcome = "LengthMismatch"

(* ============================= distinct_rows =========================== *)
(* VisitorSetIndexSet: a set of row indices addressed by row content; two   *)
(* rows are the same element when every column agrees on them.              *)
RowsEqual(t, a, b) == \A c \in 1..Len(t.cols) : t.cols[c][a + 1] = t.cols[c][b + 1]

(* set.insert(i).second *)
InsertIsNovel(t, set, i) == ~\E e \in set : RowsEqual(t, e, i)

Insert(t, set, i) == IF InsertIsNovel(t, set, i) THEN set \cup {i} ELSE set

SubsetRows(t, idx) ==
    [nrows |-> Len(idx), cols |-> [c \in 1..Len(t.cols) |-> Subset(t.cols[c], idx)]]

PushBackAlways(indices, i, second) == Append(indices, i)

PushBack(indices, i, second) == IF second THEN Append(indices, i) ELSE indices

DiInit ==
    \E n \in 0..MaxDistinctRows : \E a \in [1..n -> 1..2] : \E b \in [1..n -> 1..2] :
        di = [pc |-> "loop", df |-> [nrows |-> n, cols |-> <<a, b>>],
              n |-> n, i |-> 0, indices |-> <<>>, set |-> {},
              pass |-> 1, res |-> <<>>]

DistinctRetain ==
    /\ di.pc = "loop" /\ di.i < di.n
    /\ InsertIsNovel(di.df, di.set, di.i)
    /\ di' = [di EXCEPT !.set = Insert(di.df, @, di.i),
                        !.indices = PushBack(@, di.i, InsertIsNovel(di.df, di.set, di.i)), !.i = @ + 1]
    /\ UNCHANGED <<rb, cb, ar>>

DistinctDuplicate ==
    /\ di.pc = "loop" /\ di.i < di.n
    /\ ~InsertIsNovel(di.df, di.set, di.i)
    /\ di' = [di EXCEPT !.set = Insert(di.df, @, di.i),
                        !.indices = PushBack(@, di.i, InsertIsNovel(di.df, di.set, di.i)), !.i = @ + 1]
    /\ UNCHANGED <<rb, cb, ar>>

DistinctReturn ==
    /\ di.pc = "loop" /\ di.i = di.n
    /\ di' = [di EXCEPT !.pc = "done", !.res = <<SubsetRows(di.df, di.indices)>>]
    /\ UNCHANGED <<rb, cb, ar>>

(* the caller hands the result to distinct_impl again *)
DistinctAgain ==
    /\ di.pc = "done" /\ di.pass = 1
    /\ di' = [pc |-> "loop", df |-> di.res[1], n |-> di.res[1].nrows, i |-> 0,
              indices |-> <<>>, set |-> {}, pass |-> 2, res |-> <<>>]
    /\ UNCHANGED <<rb, cb, ar>>

NextDistinct == DistinctRetain \/ DistinctDuplicate \/ DistinctReturn \/ DistinctAgain

InitDistinct == DiInit /\ rb = Idle /\ cb = Idle /\ ar = Idle

SpecDistinct == InitDistinct /\ [][NextDistinct]_vars

(* ------------------------ distinct_rows properties --------------------- *)
FirstOccurrence(r) == \A e \in 0..(r - 1) : ~RowsEqual(di.df, e, r)
Retained == {di.indices[x] : x \in 1..Len(di.indices)}

(* C9: distinct_rows retains row i exactly when no earlier row is fully     *)
(* equal to it; the retained rows come in strictly increasing original      *)
(* order, no two of them are equal, every input row equals a retained row,  *)
(* and distinct_rows of the result is the result unchanged.                 *)
C9_DistinctFirstOccurrence ==
    di.pc = "done" =>
       /\ \A r \in 0..(di.n - 1) : (r \in Retained) <=> FirstOccurrence(r)
       /\ \A x, y \in 1..Len(di.indices) : x < y => di.indices[x] < di.indices[y]
       /\ \A a, b \in Retained : a # b => ~RowsEqual(di.df, a, b)
       /\ \A r \in 0..(di.n - 1) : \E a \in Retained : RowsEqual(di.df, a, r)
       /\ di.res[1] = SubsetRows(di.df, di.indices)
       /\ di.pass = 2 => di.res[1] = di.df

C9_Witness ==
    /\ di.pc = "done" /\ di.pass = 1 /\ di.n = 4
    /\ Len(di.indices) = 2
    /\ RowsEqual(di.df, 0, 2) /\ RowsEqual(di.df, 1, 3) /\ ~RowsEqual(di.df, 0, 1)

====
